---- MODULE Spec2Model ----
(***************************************************************************)
(* Fixed-roster multi-agent adapters of flow/envs/multiagent/i210.py:      *)
(* I210QMIXMultiEnv (discrete actions, action mask) and                    *)
(* I210MADDPGMultiEnv (continuous actions).  The state is the adapter's    *)
(* index maps and counter, the simulator's vehicle lists, the observation  *)
(* handed to the policy and the commands sent back to the simulator.       *)
(* Further: the car-following controllers of                               *)
(* flow/controllers/car_following_models.py (BCM, LAC, OVM, IDM) and the   *)
(* base environment's I210MultiEnv.compute_reward, each under a            *)
(* specification of its own.                                               *)
(***************************************************************************)
EXTENDS Integers, Sequences, FiniteSets, TLC

\* ------------------------------------------------------------------ bounds
NumRL == 3          \* size of the pool of RL vehicle ids
MaxArrivals == 2    \* vehicles that may enter in one simulation step
MaxSpeed == 1       \* speeds reported by the simulator are 0..MaxSpeed

\* ------------------------------------------------- environment parameters
max_num_agents == 2     \* additional_params["max_num_agents(_qmix)"]
num_actions == 3        \* additional_params["num_actions"]
max_accel == 1          \* ADDITIONAL_ENV_PARAMS["max_accel"]
max_decel == 1          \* ADDITIONAL_ENV_PARAMS["max_decel"]
horizon == 2            \* env_params.horizon

\* ------------------------------------------------------------- vehicle ids
\* Simulator ids are strings; they are modelled as integers >= 100 so that
\* an id is never equal to a slot index.
RLVeh == {100 + i : i \in 1..NumRL}
HumanVeh == {200}
Veh == RLVeh \cup HumanVeh

Variants == {"QMIX", "MADDPG"}

\* ----------------------------------------------------------------- helpers
Range(s) == {s[i] : i \in 1..Len(s)}

Abs(x) == IF x < 0 THEN -x ELSE x

RECURSIVE Gcd(_, _)
Gcd(a, b) == IF b = 0 THEN Abs(a) ELSE Gcd(b, a % b)

\* a rational number n/d, d > 0, in lowest terms
Frac(n, d) ==
    LET g == Gcd(n, d)
    IN IF g = 0 THEN [n |-> 0, d |-> 1] ELSE [n |-> n \div g, d |-> d \div g]

FracLeq(x, y) == x.n * y.d <= y.n * x.d
FracLt(x, y) == x.n * y.d < y.n * x.d

\* dict[k] = v
Put(f, k, v) == [x \in (DOMAIN f) \cup {k} |-> IF x = k THEN v ELSE f[x]]

EmptyDict == [x \in {} |-> 0]

\* ordered lists of distinct elements of S, of length at most n
Lists(S, n) ==
    {s \in UNION {[1..k -> S] : k \in 0..n} :
        \A i, j \in 1..Len(s) : i # j => s[i] # s[j]}

Without(s, X) == SelectSeq(s, LAMBDA v : v \notin X)

RECURSIVE Sum(_, _)
Sum(f, S) == IF S = {} THEN 0
             ELSE LET x == CHOOSE y \in S : TRUE IN f[x] + Sum(f, S \ {x})

\* ------------------------------------------------------------ observations
\* A base observation vector is kept by its provenance: veh is the vehicle
\* it was computed for (I210MultiEnv.get_state), 0 for np.zeros padding.
Zeros == [veh |-> 0]
VehObs(rl_id) == [veh |-> rl_id]

\* get_action_mask with the two branches exchanged
get_action_mask_swapped(valid_agent) ==
    [i \in 1..(num_actions + 1) |->
        IF valid_agent THEN (IF i = 1 THEN 1 ELSE 0)
                       ELSE (IF i = 1 THEN 0 ELSE 1)]

\* I210QMIXMultiEnv.get_action_mask; position i of the sequence is index i-1
get_action_mask(valid_agent) ==
    [i \in 1..(num_actions + 1) |->
        IF valid_agent THEN (IF i = 1 THEN 0 ELSE 1)
                       ELSE (IF i = 1 THEN 1 ELSE 0)]

\* self.default_state of each variant
default_state(variant) ==
    [idx \in 0..(max_num_agents - 1) |->
        IF variant = "QMIX"
        THEN [obs |-> Zeros, action_mask |-> get_action_mask(FALSE)]
        ELSE [obs |-> Zeros]]

\* the value written into an active vehicle's slot by get_state
SlotEntry(variant, rl_id) ==
    IF variant = "QMIX"
    THEN [obs |-> VehObs(rl_id), action_mask |-> get_action_mask(TRUE)]
    ELSE [obs |-> VehObs(rl_id)]

\* the grid as np.linspace(..., endpoint=False) would build it
action_values_no_endpoint ==
    [k \in 1..num_actions |->
        Frac(-Abs(max_decel) * num_actions
                + (k - 1) * (max_accel + Abs(max_decel)),
             num_actions)]

\* np.linspace(-abs(max_decel), max_accel, num_actions); position k is
\* action_values[k-1]
action_values ==
    [k \in 1..num_actions |->
        IF num_actions = 1 THEN Frac(-Abs(max_decel), 1)
        ELSE Frac(-Abs(max_decel) * (num_actions - 1)
                    + (k - 1) * (max_accel + Abs(max_decel)),
                  num_actions - 1)]

\* ------------------------------------------------------------ index map
\* the adapter's three fields
Fields(m, r, c) == [map |-> m, rmap |-> r, counter |-> c]

\* the assignment loop with index_counter += 1 left out
RECURSIVE AssignNew_no_increment(_, _, _)
AssignNew_no_increment(keys, rl, st) ==
    IF keys = <<>> THEN st
    ELSE LET key == Head(keys)
             nxt == IF key \notin DOMAIN st.map /\ key \in Range(rl)
                    THEN Fields(Put(st.map, key, st.counter),
                                Put(st.rmap, st.counter, key),
                                st.counter)
                    ELSE st
         IN AssignNew_no_increment(Tail(keys), rl, nxt)

\* for key in keys: if key not in rl_id_to_idx_map and key in rl_ids: ...
RECURSIVE AssignNew(_, _, _)
AssignNew(keys, rl, st) ==
    IF keys = <<>> THEN st
    ELSE LET key == Head(keys)
             nxt == IF key \notin DOMAIN st.map /\ key \in Range(rl)
                    THEN Fields(Put(st.map, key, st.counter),
                                Put(st.rmap, st.counter, key),
                                st.counter + 1)
                    ELSE st
         IN AssignNew(Tail(keys), rl, nxt)

\* {rl_id: i for i, rl_id in enumerate(rl_ids)}
EnumMap(rl) ==
    [v \in Range(rl) |->
        (CHOOSE i \in 1..Len(rl) :
            rl[i] = v /\ \A j \in (i + 1)..Len(rl) : rl[j] # v) - 1]

\* {i: rl_id for i, rl_id in enumerate(rl_ids)}
EnumInv(rl) == [i \in 0..(Len(rl) - 1) |-> rl[i + 1]]

\* dict.update({map[rl_id]: entry(rl_id) for rl_id in rl_ids}), in order
RECURSIVE UpdateSlots(_, _, _, _)
UpdateSlots(d, rl, map, variant) ==
    IF rl = <<>> THEN d
    ELSE UpdateSlots(Put(d, map[Head(rl)], SlotEntry(variant, Head(rl))),
                     Tail(rl), map, variant)

\* slot at which each vehicle of rl is placed
PlaceOf(rl, map) == [v \in Range(rl) |-> map[v]]

\* I210QMIXMultiEnv.get_state
QMIX_get_state(st, rl, dep) ==
    LET s1 == AssignNew(dep, rl, st)
    IN IF \E v \in Range(rl) : v \notin DOMAIN s1.map
       THEN [st |-> s1, ret |-> EmptyDict, place |-> EmptyDict,
             err |-> "KeyError"]
       ELSE [st |-> Fields(EnumMap(rl), EnumInv(rl), s1.counter),
             ret |-> UpdateSlots(default_state("QMIX"), rl, s1.map, "QMIX"),
             place |-> PlaceOf(rl, s1.map),
             err |-> "none"]

\* I210MADDPGMultiEnv.get_state
MADDPG_get_state(st, rl, dep) ==
    LET s1 == AssignNew(dep, rl, st)
    IN IF \E v \in Range(rl) : v \notin DOMAIN s1.map
       THEN [st |-> s1, ret |-> EmptyDict, place |-> EmptyDict,
             err |-> "KeyError"]
       ELSE [st |-> s1,
             ret |-> UpdateSlots(default_state("MADDPG"), rl, s1.map,
                                 "MADDPG"),
             place |-> PlaceOf(rl, s1.map),
             err |-> "none"]

get_state(variant, st, rl, dep) ==
    IF variant = "QMIX" THEN QMIX_get_state(st, rl, dep)
    ELSE MADDPG_get_state(st, rl, dep)


\* MultiEnv.reset of the base class, as far as the adapters see it: the
\* simulator has been restarted with vehicles rl (RL) and dep (just
\* inserted), and the observation it returns is self.get_state().
super_reset(variant, st, rl, dep) == get_state(variant, st, rl, dep)

\* I210QMIXMultiEnv.reset
QMIX_reset(st, rl, dep) ==
    LET veh_info == super_reset("QMIX", st, rl, dep)
        s2 == AssignNew(dep \o rl, rl, Fields(EmptyDict, EmptyDict, 0))
    IN IF veh_info.err # "none"
       THEN [st |-> veh_info.st, ret |-> EmptyDict, place |-> EmptyDict,
             err |-> veh_info.err, trap |-> FALSE]
       ELSE \* the update of veh_info_copy sits in try/except: a failing
            \* veh_info[rl_id] or rl_id_to_idx_map[rl_id] enters ipdb;
            \* veh_info, not veh_info_copy, is returned
            [st |-> s2, ret |-> veh_info.ret, place |-> veh_info.place,
             err |-> "none",
             trap |-> \E v \in Range(rl) :
                         v \notin DOMAIN s2.map
                         \/ v \notin DOMAIN veh_info.ret]

\* I210MADDPGMultiEnv.reset
MADDPG_reset(st, rl, dep) ==
    LET veh_info == super_reset("MADDPG", st, rl, dep)
        s2 == AssignNew(dep \o rl, rl, Fields(EmptyDict, EmptyDict, 0))
    IN IF veh_info.err # "none"
       THEN [st |-> veh_info.st, ret |-> EmptyDict, place |-> EmptyDict,
             err |-> veh_info.err, trap |-> FALSE]
       ELSE IF Len(rl) > 0
       THEN \* for rl_id in enumerate(rl_ids): rl_id is the tuple
            \* (i, id), which is a key of neither dictionary
            [st |-> s2, ret |-> EmptyDict, place |-> EmptyDict,
             err |-> "KeyError", trap |-> FALSE]
       ELSE [st |-> s2, ret |-> default_state("MADDPG"),
             place |-> EmptyDict, err |-> "none", trap |-> FALSE]

reset(variant, st, rl, dep) ==
    IF variant = "QMIX" THEN QMIX_reset(st, rl, dep)
    ELSE MADDPG_reset(st, rl, dep)

\* --------------------------------------------------------------- actions
\* rl_actions: None, or a dictionary slot -> action
NoneActions == [isNone |-> TRUE, act |-> EmptyDict]
Truthy(a) == ~a.isNone /\ DOMAIN a.act # {}

NoCommand == [called |-> FALSE, ids |-> <<>>, accels |-> <<>>,
              slots |-> <<>>]

\* the loop without the no-op test: action 0 indexes action_values[-1]
RECURSIVE QMIX_collect_no_noop(_, _, _, _)
QMIX_collect_no_noop(rl, map, act, acc) ==
    IF rl = <<>> THEN acc
    ELSE LET rl_id == Head(rl)
             action == act[map[rl_id]]
             nxt == [called |-> TRUE,
                     ids |-> Append(acc.ids, rl_id),
                     accels |-> Append(acc.accels,
                                  action_values[IF action = 0
                                                THEN num_actions
                                                ELSE action]),
                     slots |-> Append(acc.slots, map[rl_id])]
         IN QMIX_collect_no_noop(Tail(rl), map, act, nxt)

\* the loop of I210QMIXMultiEnv._apply_rl_actions; slots records the index
\* each appended action was read from
RECURSIVE QMIX_collect(_, _, _, _)
QMIX_collect(rl, map, act, acc) ==
    IF rl = <<>> THEN acc
    ELSE LET rl_id == Head(rl)
             action == act[map[rl_id]]
             nxt == IF action > 0
                    THEN [called |-> TRUE,
                          ids |-> Append(acc.ids, rl_id),
                          accels |-> Append(acc.accels,
                                            action_values[action]),
                          slots |-> Append(acc.slots, map[rl_id])]
                    ELSE acc
         IN QMIX_collect(Tail(rl), map, act, nxt)

\* I210QMIXMultiEnv._apply_rl_actions
QMIX_apply_rl_actions(map, rl, a) ==
    IF ~Truthy(a) THEN [cmd |-> NoCommand, err |-> "none"]
    ELSE IF \E v \in Range(rl) :
                v \notin DOMAIN map \/ map[v] \notin DOMAIN a.act
    THEN [cmd |-> NoCommand, err |-> "KeyError"]
    ELSE [cmd |-> QMIX_collect(rl, map, a.act,
                    [called |-> TRUE, ids |-> <<>>, accels |-> <<>>,
                     slots |-> <<>>]),
          err |-> "none"]

\* the loop of I210MADDPGMultiEnv._apply_rl_actions
RECURSIVE MADDPG_collect(_, _, _, _)
MADDPG_collect(rl, map, act, acc) ==
    IF rl = <<>> THEN acc
    ELSE LET rl_id == Head(rl)
             nxt == IF rl_id \in DOMAIN map
                    THEN [called |-> TRUE,
                          ids |-> Append(acc.ids, rl_id),
                          accels |-> Append(acc.accels, act[map[rl_id]]),
                          slots |-> Append(acc.slots, map[rl_id])]
                    ELSE acc
         IN MADDPG_collect(Tail(rl), map, act, nxt)

\* I210MADDPGMultiEnv._apply_rl_actions
MADDPG_apply_rl_actions(map, rl, a) ==
    IF ~Truthy(a) THEN [cmd |-> NoCommand, err |-> "none"]
    ELSE IF \E v \in Range(rl) :
                v \in DOMAIN map /\ map[v] \notin DOMAIN a.act
    THEN [cmd |-> NoCommand, err |-> "KeyError"]
    ELSE [cmd |-> MADDPG_collect(rl, map, a.act,
                    [called |-> TRUE, ids |-> <<>>, accels |-> <<>>,
                     slots |-> <<>>]),
          err |-> "none"]

apply_rl_actions(variant, map, rl, a) ==
    IF variant = "QMIX" THEN QMIX_apply_rl_actions(map, rl, a)
    ELSE MADDPG_apply_rl_actions(map, rl, a)

\* --------------------------------------------------------------- rewards
\* np.nan_to_num(np.mean(speeds of S)) / (20 * horizon)
MeanSpeedReward(speed, S) ==
    IF S = {} THEN Frac(0, 1)
    ELSE Frac(Sum(speed, S), Cardinality(S) * 20 * horizon)

\* compute_reward keyed by the active vehicles' indices only
QMIX_compute_reward_active_only(a, speed, rl, ids) ==
    LET reward == MeanSpeedReward(speed, Range(rl))
    IN [idx \in 0..(Len(rl) - 1) |-> reward]

\* I210QMIXMultiEnv.compute_reward
QMIX_compute_reward(a, speed, rl, ids) ==
    LET reward == MeanSpeedReward(speed, Range(rl))
    IN [idx \in 0..(max_num_agents - 1) |-> reward]

\* I210MADDPGMultiEnv.compute_reward
MADDPG_compute_reward(a, speed, rl, ids) ==
    LET reward == MeanSpeedReward(speed, ids)
    IN [idx \in 0..(max_num_agents - 1) |-> reward]

compute_reward(variant, a, speed, rl, ids) ==
    IF variant = "QMIX" THEN QMIX_compute_reward(a, speed, rl, ids)
    ELSE MADDPG_compute_reward(a, speed, rl, ids)

\* ------------------------------------------------------------ the policy
\* The training framework answers every slot of the observation it was
\* given: a mask-permitted discrete action (QMIX) or an acceleration at a
\* bound of the Box action space (MADDPG).  In the warm-up it passes None.
Policy(variant, o) ==
    {NoneActions} \cup
    IF variant = "QMIX"
    THEN {[isNone |-> FALSE, act |-> f] :
            f \in {g \in [DOMAIN o -> 0..num_actions] :
                     \A k \in DOMAIN o : o[k].action_mask[g[k] + 1] = 1}}
    ELSE {[isNone |-> FALSE, act |-> f] :
            f \in [DOMAIN o -> {Frac(-Abs(max_decel), 1),
                                Frac(max_accel, 1)}]}


\* ----------------------------------------------------------------- state
VARIABLES
    variant,            \* which adapter class the environment is
    pc,                 \* the call that was made last
    err,                \* exception that left the environment, if any
    trapped,            \* the last reset entered its except branch
    rl_ids,             \* k.vehicle.get_rl_ids()
    departed,           \* k.vehicle.get_departed_ids()
    humans,             \* vehicles present that are not RL-controlled
    seen,               \* ids the simulator has used in this episode
    rl_id_to_idx_map,
    idx_to_rl_id_map,
    index_counter,
    obs,                \* observation last returned by reset / get_state
    slot_of,            \* slot each vehicle's observation was written to
    rl_actions,         \* argument of the last _apply_rl_actions
    applied,            \* its call of k.vehicle.apply_acceleration
    rew,                \* last compute_reward: argument, speeds, result
    ctl,                \* a car-following controller: class, parameters, self.a
    env,                \* what the simulator answers to that controller
    out                 \* its last get_accel: return value, queries made

vars == <<variant, pc, err, trapped, rl_ids, departed, humans, seen,
          rl_id_to_idx_map, idx_to_rl_id_map, index_counter, obs, slot_of,
          rl_actions, applied, rew, ctl, env, out>>

\* the variables of the car-following controllers
ctlvars == <<ctl, env, out>>

NoController == [class |-> "none"]
NoEnv == [lead_id |-> "None"]
NoCall == [calls |-> 0]

NoReward == [isNone |-> TRUE, speed |-> EmptyDict, ret |-> EmptyDict]

Self == Fields(rl_id_to_idx_map, idx_to_rl_id_map, index_counter)

\* get_ids()
Ids == Range(rl_ids) \cup humans

\* __init__ of either adapter
\* vehicle lists a restart, resp. one simulation step, may insert
RestartLists ==
    {h \o r : h \in Lists(HumanVeh, 1), r \in Lists(RLVeh, max_num_agents)}
ArrivalLists ==
    {h \o r : h \in Lists(HumanVeh, 1), r \in Lists(RLVeh, MaxArrivals)}

Init ==
    /\ variant \in Variants
    /\ pc = "new"
    /\ err = "none"
    /\ trapped = FALSE
    /\ rl_ids = <<>>
    /\ departed = <<>>
    /\ humans = {}
    /\ seen = {}
    /\ rl_id_to_idx_map = EmptyDict
    /\ idx_to_rl_id_map = EmptyDict
    /\ index_counter = 0
    /\ obs = EmptyDict
    /\ slot_of = EmptyDict
    /\ rl_actions = NoneActions
    /\ applied = NoCommand
    /\ rew = NoReward
    /\ ctl = NoController
    /\ env = NoEnv
    /\ out = NoCall

\* reset(): the simulator restarts with the vehicles of dep, of which at
\* most max_num_agents are RL vehicles
Reset ==
    /\ pc \in {"new", "reset", "get_state"}
    /\ err = "none"
    /\ \E dep \in RestartLists :
        LET rl == SelectSeq(dep, LAMBDA v : v \in RLVeh)
            r == reset(variant, Self, rl, dep)
        IN /\ rl_ids' = rl
           /\ departed' = dep
           /\ humans' = Range(dep) \cap HumanVeh
           /\ seen' = Range(dep)
           /\ rl_id_to_idx_map' = r.st.map
           /\ idx_to_rl_id_map' = r.st.rmap
           /\ index_counter' = r.st.counter
           /\ obs' = r.ret
           /\ slot_of' = r.place
           /\ err' = r.err
           /\ trapped' = r.trap
           /\ pc' = "reset"
    /\ rl_actions' = NoneActions
    /\ applied' = NoCommand
    /\ UNCHANGED <<variant, rew, ctl, env, out>>

\* _apply_rl_actions(rl_actions) with the policy's answer to obs
Apply ==
    /\ pc \in {"reset", "get_state"}
    /\ err = "none"
    /\ \E a \in Policy(variant, obs) :
        LET r == apply_rl_actions(variant, rl_id_to_idx_map, rl_ids, a)
        IN /\ rl_actions' = a
           /\ applied' = r.cmd
           /\ err' = r.err
           /\ pc' = "apply"
    /\ UNCHANGED <<variant, trapped, rl_ids, departed, humans, seen,
                   rl_id_to_idx_map, idx_to_rl_id_map, index_counter, obs,
                   slot_of, rew, ctl, env, out>>

\* one simulation step: the RL vehicles of gone leave, the vehicles of dep
\* enter (ids are not reused within an episode), at most max_num_agents RL
\* vehicles remain
SimStep ==
    /\ pc = "apply"
    /\ err = "none"
    /\ \E gone \in SUBSET Range(rl_ids), dep \in ArrivalLists :
        LET rl == Without(rl_ids, gone)
                    \o SelectSeq(dep, LAMBDA v : v \in RLVeh)
        IN /\ Range(dep) \cap seen = {}
           /\ Len(rl) <= max_num_agents
           /\ rl_ids' = rl
           /\ departed' = dep
           /\ humans' = (humans \ gone) \cup (Range(dep) \cap HumanVeh)
           /\ seen' = seen \cup Range(dep)
    /\ pc' = "sim"
    /\ rl_actions' = NoneActions
    /\ applied' = NoCommand
    /\ UNCHANGED <<variant, err, trapped, rl_id_to_idx_map,
                   idx_to_rl_id_map, index_counter, obs, slot_of, rew,
                   ctl, env, out>>

\* get_state()
GetState ==
    /\ pc = "sim"
    /\ LET r == get_state(variant, Self, rl_ids, departed)
       IN /\ rl_id_to_idx_map' = r.st.map
          /\ idx_to_rl_id_map' = r.st.rmap
          /\ index_counter' = r.st.counter
          /\ obs' = r.ret
          /\ slot_of' = r.place
          /\ err' = r.err
          /\ pc' = "get_state"
    /\ UNCHANGED <<variant, trapped, rl_ids, departed, humans, seen,
                   rl_actions, applied, rew, ctl, env, out>>

Next == Reset \/ Apply \/ SimStep \/ GetState

\* the rollout loop: reset, then per tick _apply_rl_actions, the simulation
\* step and get_state
Spec == Init /\ [][Next]_vars

\* ------------------------------------------------- compute_reward alone
\* compute_reward reads the simulator only; it is applied to every vehicle
\* population and every speed assignment within the bounds.
RewardInit ==
    /\ variant \in Variants
    /\ pc = "get_state"
    /\ err = "none"
    /\ trapped = FALSE
    /\ \E dep \in RestartLists :
        /\ rl_ids = SelectSeq(dep, LAMBDA v : v \in RLVeh)
        /\ departed = dep
        /\ humans = Range(dep) \cap HumanVeh
        /\ seen = Range(dep)
    /\ rl_id_to_idx_map = EmptyDict
    /\ idx_to_rl_id_map = EmptyDict
    /\ index_counter = 0
    /\ obs = EmptyDict
    /\ slot_of = EmptyDict
    /\ rl_actions \in Policy(variant, default_state(variant))
    /\ applied = NoCommand
    /\ rew = NoReward
    /\ ctl = NoController
    /\ env = NoEnv
    /\ out = NoCall

\* compute_reward(rl_actions) against the speeds the simulator reports
ComputeReward ==
    /\ pc = "get_state"
    /\ \E speed \in [Ids -> 0..MaxSpeed] :
        rew' = [isNone |-> rl_actions.isNone, speed |-> speed,
                ret |-> compute_reward(variant, rl_actions, speed, rl_ids,
                                       Ids)]
    /\ pc' = "compute_reward"
    /\ UNCHANGED <<variant, err, trapped, rl_ids, departed, humans, seen,
                   rl_id_to_idx_map, idx_to_rl_id_map, index_counter, obs,
                   slot_of, rl_actions, applied, ctl, env, out>>

RewardSpec == RewardInit /\ [][ComputeReward]_vars


\* =========================================== car-following controllers
\* flow/controllers/car_following_models.py.  Python floats are modelled as
\* exact rationals; the inputs are chosen so that every square root and
\* cosine the code takes is rational.  The file carries unresolved merge
\* markers (lines 255, 256, 372) around LinearOVM and PNSController; the
\* four classes modelled here lie outside them.
F(x) == Frac(x, 1)
FNeg(x) == [n |-> -x.n, d |-> x.d]
FAbs(x) == [n |-> Abs(x.n), d |-> x.d]
FAdd(x, y) == Frac(x.n * y.d + y.n * x.d, x.d * y.d)
FSub(x, y) == Frac(x.n * y.d - y.n * x.d, x.d * y.d)
FMul(x, y) == Frac(x.n * y.n, x.d * y.d)
\* x / y for y # 0
FDiv(x, y) == IF y.n < 0 THEN Frac(-(x.n * y.d), x.d * (-y.n))
                         ELSE Frac(x.n * y.d, x.d * y.n)
FMax(x, y) == IF FracLt(x, y) THEN y ELSE x
FMin(x, y) == IF FracLt(y, x) THEN y ELSE x

\* x ** k for a natural number k
RECURSIVE FPow(_, _)
FPow(x, k) == IF k = 0 THEN F(1) ELSE FMul(x, FPow(x, k - 1))

\* np.sqrt on the squares of rationals
ISqrt(k) == CHOOSE r \in 0..k : r * r = k
FSqrt(x) == Frac(ISqrt(x.n), ISqrt(x.d))

\* math.cos(math.pi * x) at the arguments where it is rational
CosPi(x) ==
    CASE x = Frac(0, 1) -> F(1)
      [] x = Frac(1, 3) -> Frac(1, 2)
      [] x = Frac(1, 2) -> F(0)
      [] x = Frac(2, 3) -> Frac(-1, 2)
      [] x = Frac(1, 1) -> F(-1)

\* the value the vehicle kernel reports for a vehicle that does not exist
SpeedError == -1001

\* env.k.vehicle.get_speed / get_headway: the entry of the vehicle, the
\* error value when there is no such vehicle
get_speed(e, veh_id) ==
    IF veh_id \in DOMAIN e.speed THEN e.speed[veh_id] ELSE e.error
get_headway(e, veh_id) ==
    IF veh_id \in DOMAIN e.headway THEN e.headway[veh_id] ELSE e.error

\* one query of the vehicle kernel
Q(fn, veh_id) == [fn |-> fn, id |-> veh_id]

\* Python's "not lead_id": None and the empty string are falsy
Falsy(veh_id) == veh_id \in {"None", ""}

\* BCMController.get_accel that only tests the leader against None
BCM_get_accel_none_only(c, e) ==
    LET lead_id == e.lead_id
    IN IF lead_id = "None"
       THEN [accel |-> c.max_accel, self |-> c,
             queries |-> <<Q("get_leader", c.veh_id)>>]
       ELSE LET lead_vel == get_speed(e, lead_id)
                this_vel == get_speed(e, c.veh_id)
                trail_id == e.trail_id
                trail_vel == get_speed(e, trail_id)
                headway == get_headway(e, c.veh_id)
                footway == get_headway(e, trail_id)
            IN [accel |->
                   FAdd(FAdd(FMul(c.k_d, FSub(headway, footway)),
                             FMul(c.k_v, FSub(FSub(lead_vel, this_vel),
                                              FSub(this_vel, trail_vel)))),
                        FMul(c.k_c, FSub(c.v_des, this_vel))),
                self |-> c,
                queries |-> <<Q("get_leader", c.veh_id),
                              Q("get_speed", lead_id),
                              Q("get_speed", c.veh_id),
                              Q("get_follower", c.veh_id),
                              Q("get_speed", trail_id),
                              Q("get_headway", c.veh_id),
                              Q("get_headway", trail_id)>>]

\* BCMController.get_accel: the return value, the controller afterwards and
\* the kernel queries made, in order
BCM_get_accel(c, e) ==
    LET lead_id == e.lead_id
    IN IF Falsy(lead_id)
       THEN [accel |-> c.max_accel, self |-> c,
             queries |-> <<Q("get_leader", c.veh_id)>>]
       ELSE LET lead_vel == get_speed(e, lead_id)
                this_vel == get_speed(e, c.veh_id)
                trail_id == e.trail_id
                trail_vel == get_speed(e, trail_id)
                headway == get_headway(e, c.veh_id)
                footway == get_headway(e, trail_id)
            IN [accel |->
                   FAdd(FAdd(FMul(c.k_d, FSub(headway, footway)),
                             FMul(c.k_v, FSub(FSub(lead_vel, this_vel),
                                              FSub(this_vel, trail_vel)))),
                        FMul(c.k_c, FSub(c.v_des, this_vel))),
                self |-> c,
                queries |-> <<Q("get_leader", c.veh_id),
                              Q("get_speed", lead_id),
                              Q("get_speed", c.veh_id),
                              Q("get_follower", c.veh_id),
                              Q("get_speed", trail_id),
                              Q("get_headway", c.veh_id),
                              Q("get_headway", trail_id)>>]

\* BCMController.__init__ with its default gains, and with other gains
BCMControllers ==
    {[class |-> "BCM", veh_id |-> "ego", max_accel |-> F(m),
      k_d |-> F(k), k_v |-> F(1), k_c |-> F(k), d_des |-> F(1),
      v_des |-> F(8)] : m \in {1, 3}, k \in {1, 2}}

\* the simulator as one controller sees it: its leader and follower ("" when
\* there is none), speeds and headways of the vehicles that exist
MkEnv(lead, trail, vs, vl, vt, h, f, dt) ==
    [lead_id |-> lead, trail_id |-> trail,
     speed |-> [id \in {"ego"} \cup ({lead} \cap {"lead"})
                                \cup ({trail} \cap {"follow"}) |->
                   CASE id = "ego" -> vs [] id = "lead" -> vl
                     [] OTHER -> vt],
     headway |-> [id \in {"ego"} \cup ({trail} \cap {"follow"}) |->
                     IF id = "ego" THEN h ELSE f],
     length |-> F(5), sim_step |-> dt, error |-> F(SpeedError)]

BCMEnvs ==
    {MkEnv(lead, trail, F(vs), F(vl), F(vt), F(h), F(f), Frac(1, 10)) :
        lead \in {"None", "", "lead"}, trail \in {"", "follow"},
        vs \in {0, 8}, vl \in {0, 8}, vt \in {0, 4}, h \in {5, 20},
        f \in {5, 10}}

\* LACController.get_accel that forgets the previous self.a
LAC_get_accel_no_carry(c, e) ==
    LET lead_id == e.lead_id
        lead_vel == get_speed(e, lead_id)
        this_vel == get_speed(e, c.veh_id)
        headway == get_headway(e, c.veh_id)
        L == e.length
        ex == FSub(FSub(headway, L), FMul(c.h, this_vel))
        ev == FSub(lead_vel, this_vel)
        u == FAdd(FMul(c.k_1, ex), FMul(c.k_2, ev))
        a_dot == FAdd(FNeg(FDiv(c.a, c.tau)), FDiv(u, c.tau))
        a == FMul(a_dot, e.sim_step)
    IN [accel |-> a, self |-> [c EXCEPT !.a = a], u |-> u,
        queries |-> <<Q("get_leader", c.veh_id), Q("get_speed", lead_id),
                      Q("get_speed", c.veh_id), Q("get_headway", c.veh_id),
                      Q("get_length", c.veh_id)>>]

\* LACController.get_accel; u is the commanded acceleration of this call
LAC_get_accel(c, e) ==
    LET lead_id == e.lead_id
        lead_vel == get_speed(e, lead_id)
        this_vel == get_speed(e, c.veh_id)
        headway == get_headway(e, c.veh_id)
        L == e.length
        ex == FSub(FSub(headway, L), FMul(c.h, this_vel))
        ev == FSub(lead_vel, this_vel)
        u == FAdd(FMul(c.k_1, ex), FMul(c.k_2, ev))
        a_dot == FAdd(FNeg(FDiv(c.a, c.tau)), FDiv(u, c.tau))
        a == FAdd(FMul(a_dot, e.sim_step), c.a)
    IN [accel |-> a, self |-> [c EXCEPT !.a = a], u |-> u,
        queries |-> <<Q("get_leader", c.veh_id), Q("get_speed", lead_id),
                      Q("get_speed", c.veh_id), Q("get_headway", c.veh_id),
                      Q("get_length", c.veh_id)>>]

\* LACController.__init__ with its default gains; a is the acceleration the
\* controller holds from earlier calls
LACControllers ==
    {[class |-> "LAC", veh_id |-> "ego", max_accel |-> F(1),
      k_1 |-> Frac(7, 10), k_2 |-> Frac(8, 10), h |-> F(1),
      tau |-> Frac(1, 10), a |-> F(a)] : a \in {0, 2}}

LACEnvs ==
    {MkEnv(lead, "", F(vs), F(vl), F(0), F(h), F(0), Frac(dt, 20)) :
        lead \in {"", "lead"}, vs \in {0, 8}, vl \in {0, 8}, h \in {5, 20},
        dt \in {1, 2, 3, 4, 6}}

\* OVMController's optimal velocity with the ramp's cosine term added
\* instead of subtracted
OVM_v_h_plus_cos(c, h) ==
    IF FracLeq(h, c.h_st) THEN F(0)
    ELSE IF FracLt(c.h_st, h) /\ FracLt(h, c.h_go)
         THEN FMul(FDiv(c.v_max, F(2)),
                   FAdd(F(1), CosPi(FDiv(FSub(h, c.h_st),
                                         FSub(c.h_go, c.h_st)))))
         ELSE c.v_max

\* OVMController.get_accel: the optimal velocity v_h for headway h
OVM_v_h(c, h) ==
    IF FracLeq(h, c.h_st) THEN F(0)
    ELSE IF FracLt(c.h_st, h) /\ FracLt(h, c.h_go)
         THEN FMul(FDiv(c.v_max, F(2)),
                   FSub(F(1), CosPi(FDiv(FSub(h, c.h_st),
                                         FSub(c.h_go, c.h_st)))))
         ELSE c.v_max

\* OVMController.get_accel
OVM_get_accel(c, e) ==
    LET lead_id == e.lead_id
    IN IF Falsy(lead_id)
       THEN [accel |-> c.max_accel, self |-> c,
             queries |-> <<Q("get_leader", c.veh_id)>>]
       ELSE LET lead_vel == get_speed(e, lead_id)
                this_vel == get_speed(e, c.veh_id)
                h == get_headway(e, c.veh_id)
                h_dot == FSub(lead_vel, this_vel)
                v_h == OVM_v_h(c, h)
            IN [accel |-> FAdd(FMul(c.alpha, FSub(v_h, this_vel)),
                               FMul(c.beta, h_dot)),
                self |-> c, v_h |-> v_h,
                queries |-> <<Q("get_leader", c.veh_id),
                              Q("get_speed", lead_id),
                              Q("get_speed", c.veh_id),
                              Q("get_headway", c.veh_id)>>]

\* OVMController.__init__: the default gains and v_max, with a ramp of
\* width 6 or 12 on which the cosine is rational
OVMControllers ==
    {[class |-> "OVM", veh_id |-> "ego", max_accel |-> F(1),
      alpha |-> F(1), beta |-> F(b), h_st |-> F(2), h_go |-> F(g),
      v_max |-> F(30)] : b \in {1, 2}, g \in {8, 14}}

\* headways that fall on every breakpoint, inside the ramp and outside it
OVMEnvs ==
    {MkEnv(lead, "", F(vs), F(vl), F(0), F(h), F(0), Frac(1, 10)) :
        lead \in {"None", "", "lead"}, vs \in {0, 10}, vl \in {0, 10},
        h \in {-1, 0, 2, 6, 8, 10, 14, 20}}

\* IDMController.get_accel that keeps s0 in s_star without a leader
IDM_get_accel_s0(c, e) ==
    LET v == get_speed(e, c.veh_id)
        lead_id == e.lead_id
        h0 == get_headway(e, c.veh_id)
        h == IF FracLt(FAbs(h0), Frac(1, 1000)) THEN Frac(1, 1000) ELSE h0
        s_star ==
            IF lead_id = "None" \/ lead_id = "" THEN c.s0
            ELSE LET lead_vel == get_speed(e, lead_id)
                 IN FAdd(c.s0,
                      FMax(F(0),
                        FAdd(FMul(v, c.T),
                             FDiv(FMul(v, FSub(v, lead_vel)),
                                  FMul(F(2), FSqrt(FMul(c.a, c.b)))))))
    IN [accel |-> FMul(c.a, FSub(FSub(F(1), FPow(FDiv(v, c.v0), c.delta)),
                                 FPow(FDiv(s_star, h), 2))),
        self |-> c, h |-> h, s_star |-> s_star,
        queries |-> <<Q("get_speed", c.veh_id), Q("get_leader", c.veh_id),
                      Q("get_headway", c.veh_id)>>
                    \o (IF lead_id = "None" \/ lead_id = "" THEN <<>>
                        ELSE <<Q("get_speed", lead_id)>>)]

\* IDMController.get_accel that replaces every headway below 1e-3
IDM_get_accel_no_abs(c, e) ==
    LET v == get_speed(e, c.veh_id)
        lead_id == e.lead_id
        h0 == get_headway(e, c.veh_id)
        h == IF FracLt(h0, Frac(1, 1000)) THEN Frac(1, 1000) ELSE h0
        s_star ==
            IF lead_id = "None" \/ lead_id = "" THEN F(0)
            ELSE LET lead_vel == get_speed(e, lead_id)
                 IN FAdd(c.s0,
                      FMax(F(0),
                        FAdd(FMul(v, c.T),
                             FDiv(FMul(v, FSub(v, lead_vel)),
                                  FMul(F(2), FSqrt(FMul(c.a, c.b)))))))
    IN [accel |-> FMul(c.a, FSub(FSub(F(1), FPow(FDiv(v, c.v0), c.delta)),
                                 FPow(FDiv(s_star, h), 2))),
        self |-> c, h |-> h, s_star |-> s_star,
        queries |-> <<Q("get_speed", c.veh_id), Q("get_leader", c.veh_id),
                      Q("get_headway", c.veh_id)>>
                    \o (IF lead_id = "None" \/ lead_id = "" THEN <<>>
                        ELSE <<Q("get_speed", lead_id)>>)]

\* IDMController.get_accel; h is the headway the code divides by, s_star
\* the desired gap
IDM_get_accel(c, e) ==
    LET v == get_speed(e, c.veh_id)
        lead_id == e.lead_id
        h0 == get_headway(e, c.veh_id)
        h == IF FracLt(FAbs(h0), Frac(1, 1000)) THEN Frac(1, 1000) ELSE h0
        s_star ==
            IF lead_id = "None" \/ lead_id = "" THEN F(0)
            ELSE LET lead_vel == get_speed(e, lead_id)
                 IN FAdd(c.s0,
                      FMax(F(0),
                        FAdd(FMul(v, c.T),
                             FDiv(FMul(v, FSub(v, lead_vel)),
                                  FMul(F(2), FSqrt(FMul(c.a, c.b)))))))
    IN [accel |-> FMul(c.a, FSub(FSub(F(1), FPow(FDiv(v, c.v0), c.delta)),
                                 FPow(FDiv(s_star, h), 2))),
        self |-> c, h |-> h, s_star |-> s_star,
        queries |-> <<Q("get_speed", c.veh_id), Q("get_leader", c.veh_id),
                      Q("get_headway", c.veh_id)>>
                    \o (IF lead_id = "None" \/ lead_id = "" THEN <<>>
                        ELSE <<Q("get_speed", lead_id)>>)]

\* IDMController.__init__: T, delta and s0 at their defaults, a and b with a
\* rational np.sqrt(a * b), a small v0
IDMControllers ==
    {[class |-> "IDM", veh_id |-> "ego", max_accel |-> F(1),
      v0 |-> F(4), T |-> F(1), a |-> F(1), b |-> F(b), delta |-> 4,
      s0 |-> F(2)] : b \in {1, 4}}

\* headways at zero, below and at 1e-3 in magnitude, negative and ordinary
IDMEnvs ==
    {MkEnv(lead, "", F(vs), F(vl), F(0), Frac(h, 2000), F(0), Frac(1, 10)) :
        lead \in {"None", "", "lead"}, vs \in {0, 2}, vl \in {0, 2, 8},
        h \in {0, 1, -1, 2, -2, 10000, -10000, 40000}}

\* get_accel of the controller's class
get_accel(c, e) ==
    CASE c.class = "BCM" -> BCM_get_accel(c, e)
      [] c.class = "LAC" -> LAC_get_accel(c, e)
      [] c.class = "OVM" -> OVM_get_accel(c, e)
      [] c.class = "IDM" -> IDM_get_accel(c, e)

\* get_accel is called at most this often on one controller
MaxCalls == 3

\* a controller of one class next to a simulator state
ControllerInit ==
    /\ variant = "QMIX"
    /\ pc = "new"
    /\ err = "none"
    /\ trapped = FALSE
    /\ rl_ids = <<>>
    /\ departed = <<>>
    /\ humans = {}
    /\ seen = {}
    /\ rl_id_to_idx_map = EmptyDict
    /\ idx_to_rl_id_map = EmptyDict
    /\ index_counter = 0
    /\ obs = EmptyDict
    /\ slot_of = EmptyDict
    /\ rl_actions = NoneActions
    /\ applied = NoCommand
    /\ rew = NoReward
    /\ \/ ctl \in BCMControllers /\ env \in BCMEnvs
       \/ ctl \in LACControllers /\ env \in LACEnvs
       \/ ctl \in OVMControllers /\ env \in OVMEnvs
       \/ ctl \in IDMControllers /\ env \in IDMEnvs
    /\ out = NoCall

\* get_accel(env), the simulator answering the same as before
GetAccel ==
    /\ ctl.class # "none"
    /\ out.calls < MaxCalls
    /\ LET r == get_accel(ctl, env)
       IN /\ out' = [calls |-> out.calls + 1, ret |-> r]
          /\ ctl' = r.self
    /\ UNCHANGED <<variant, pc, err, trapped, rl_ids, departed, humans, seen,
                   rl_id_to_idx_map, idx_to_rl_id_map, index_counter, obs,
                   slot_of, rl_actions, applied, rew, env>>

ControllerSpec == ControllerInit /\ [][GetAccel]_vars

\* ================================= I210MultiEnv.compute_reward (base class)
\* flow.core.rewards.average_velocity: the system-wide average velocity
\* term; its value is an input of the model
average_velocity(k, fail) == k.avg

\* np.mean([speed**2 for speed in speeds]) for a list of one or two speeds
MeanSquares(speeds) ==
    IF Len(speeds) = 1 THEN FMul(speeds[1], speeds[1])
    ELSE FDiv(FAdd(FMul(speeds[1], speeds[1]), FMul(speeds[2], speeds[2])),
              F(2))

\* the local_reward branch for one vehicle
LocalReward(k, rl_id) ==
    LET follow_speed == get_speed(k, k.follower[rl_id])
        speeds == (IF FracLeq(F(0), follow_speed) THEN <<follow_speed>>
                                                 ELSE <<>>)
                  \o (IF FracLeq(F(0), get_speed(k, rl_id))
                      THEN <<get_speed(k, rl_id)>> ELSE <<>>)
    IN IF Len(speeds) > 0 THEN FDiv(MeanSquares(speeds), F(500)) ELSE F(0)

\* the time-headway penalty cost2 of one vehicle
HeadwayPenalty(k, rl_id) ==
    LET t_min == F(1)
        lead_id == k.leader[rl_id]
    IN IF lead_id \notin {"", "None"} /\ FracLt(F(0), get_speed(k, rl_id))
       THEN LET t_headway == FMax(FDiv(get_headway(k, rl_id),
                                       get_speed(k, rl_id)), F(0))
            IN FAdd(F(0), FMin(FDiv(FSub(t_headway, t_min), t_min), F(0)))
       ELSE F(0)

\* the weights eta1, eta2 = 1.00, 0.0
Eta1 == F(1)
Eta2 == F(0)

\* max(eta1 * cost1 + eta2 * cost2, 0)
GlobalReward(k, fail, rl_id) ==
    LET cost1 == average_velocity(k, fail)
        cost2 == HeadwayPenalty(k, rl_id)
    IN FMax(FAdd(FMul(Eta1, cost1), FMul(Eta2, cost2)), F(0))

\* I210MultiEnv.compute_reward that tests kwargs['fail'] before evaluate
I210_compute_reward_fail_first(a, k, fail, rl) ==
    IF a.isNone THEN EmptyDict
    ELSE [rl_id \in Range(rl) |->
            IF k.local_reward THEN LocalReward(k, rl_id)
            ELSE IF fail THEN F(0)
            ELSE IF k.evaluate THEN get_speed(k, rl_id)
            ELSE GlobalReward(k, fail, rl_id)]

\* I210MultiEnv.compute_reward(rl_actions, fail=fail); k is the simulator and
\* the environment's parameters, rl is k.vehicle.get_rl_ids()
I210_compute_reward(a, k, fail, rl) ==
    IF a.isNone THEN EmptyDict
    ELSE [rl_id \in Range(rl) |->
            IF k.local_reward THEN LocalReward(k, rl_id)
            ELSE IF k.evaluate THEN get_speed(k, rl_id)
            ELSE IF fail THEN F(0)
            ELSE GlobalReward(k, fail, rl_id)]

\* the vehicles of the base environment: RL vehicles and one other vehicle
\* that may lead or follow them
BaseRLLists == {<<>>, <<"rl_0">>, <<"rl_0", "rl_1">>, <<"rl_1", "rl_0">>}

\* simulator states and parameters offered to I210MultiEnv.compute_reward
BaseEnvs(rl) ==
    {[speed |-> [id \in Range(rl) \cup {"human_0"} |->
                    IF id = "human_0" THEN F(1) ELSE sp[id]],
      headway |-> [id \in Range(rl) |-> h],
      leader |-> [id \in Range(rl) |-> ld[id]],
      follower |-> [id \in Range(rl) |-> fl],
      error |-> F(SpeedError), avg |-> avg,
      local_reward |-> lr, evaluate |-> ev] :
        sp \in [Range(rl) -> {F(0), F(2)}],
        ld \in [Range(rl) -> {"", "human_0"}],
        h \in {F(1), F(4)}, fl \in {"", "human_0"},
        avg \in {Frac(-1, 2), F(0), Frac(3, 2)},
        lr \in BOOLEAN, ev \in BOOLEAN}

BaseRewardInit ==
    /\ variant = "QMIX"
    /\ pc = "get_state"
    /\ err = "none"
    /\ trapped = FALSE
    /\ rl_ids \in BaseRLLists
    /\ departed = <<>>
    /\ humans = {"human_0"}
    /\ seen = {}
    /\ rl_id_to_idx_map = EmptyDict
    /\ idx_to_rl_id_map = EmptyDict
    /\ index_counter = 0
    /\ obs = EmptyDict
    /\ slot_of = EmptyDict
    /\ rl_actions \in {NoneActions, [isNone |-> FALSE, act |-> EmptyDict]}
    /\ applied = NoCommand
    /\ rew = NoReward
    /\ ctl = NoController
    /\ env \in BaseEnvs(rl_ids)
    /\ out = NoCall

\* compute_reward(rl_actions, fail=fail) as MultiEnv.step calls it
BaseComputeReward ==
    /\ pc = "get_state"
    /\ \E fail \in BOOLEAN :
        rew' = [isNone |-> rl_actions.isNone, fail |-> fail,
                ret |-> I210_compute_reward(rl_actions, env, fail, rl_ids)]
    /\ pc' = "compute_reward"
    /\ UNCHANGED <<variant, err, trapped, rl_ids, departed, humans, seen,
                   rl_id_to_idx_map, idx_to_rl_id_map, index_counter, obs,
                   slot_of, rl_actions, applied, ctl, env, out>>

BaseRewardSpec == BaseRewardInit /\ [][BaseComputeReward]_vars

\* ============================================================ properties
Slots == 0..(max_num_agents - 1)

Injective(f, S) == \A a, b \in S : a # b => f[a] # f[b]

\* the observation dictionary is the one a call returned without raising
Returned == pc \in {"reset", "get_state"} /\ err = "none"

\* C1: with at most max_num_agents RL vehicles active at any time, every
\* index stored in rl_id_to_idx_map and every key at which a real vehicle's
\* observation is written into the returned state lies in [0, max_agents).
C1_IndicesInRange ==
    (Len(rl_ids) <= max_num_agents /\ err = "none" /\ ~trapped) =>
        /\ \A v \in DOMAIN rl_id_to_idx_map : rl_id_to_idx_map[v] \in Slots
        /\ \A k \in DOMAIN obs : obs[k].obs # Zeros => k \in Slots

\* C2: no two active RL vehicles share an index: the indices used when
\* get_state writes the observations are pairwise distinct, so every
\* vehicle's observation is still in its slot in the returned state, and
\* after the call the map is defined and injective on the active ids.
C2_InjectiveOnActive ==
    Returned =>
        /\ DOMAIN slot_of = Range(rl_ids)
        /\ Injective(slot_of, DOMAIN slot_of)
        /\ \A v \in DOMAIN slot_of : obs[slot_of[v]].obs = VehObs(v)
        /\ Range(rl_ids) \subseteq DOMAIN rl_id_to_idx_map
        /\ Injective(rl_id_to_idx_map, Range(rl_ids))

\* C2 witness: QMIX returned a state with two active vehicles, one of them
\* written at an index the rebuilt map no longer gives it.
C2_Witness ==
    /\ variant = "QMIX" /\ pc = "get_state" /\ err = "none"
    /\ Len(rl_ids) = 2
    /\ \E v \in Range(rl_ids) : slot_of[v] # rl_id_to_idx_map[v]

\* C3: the dictionary returned by get_state has exactly the keys
\* 0..max_num_agents-1.
C3_ExactlyMaxAgentsKeys ==
    (pc = "get_state" /\ err = "none" /\ ~trapped) => DOMAIN obs = Slots

\* C4: in the state returned by I210QMIXMultiEnv.get_state every slot with
\* an active vehicle's observation has the mask 0,1,...,1 of length
\* num_actions+1 and every other slot has the mask 1,0,...,0.
ActiveMask(m) ==
    /\ Len(m) = num_actions + 1
    /\ m[1] = 0
    /\ \A i \in 2..Len(m) : m[i] = 1

PaddingMask(m) ==
    /\ Len(m) = num_actions + 1
    /\ m[1] = 1
    /\ \A i \in 2..Len(m) : m[i] = 0

C4_ActionMasks ==
    (variant = "QMIX" /\ pc = "get_state" /\ err = "none") =>
        \A k \in DOMAIN obs :
            IF \E v \in Range(rl_ids) : obs[k].obs = VehObs(v)
            THEN ActiveMask(obs[k].action_mask)
            ELSE PaddingMask(obs[k].action_mask)

\* C4 witness: a QMIX state with one active slot and one padding slot.
C4_Witness ==
    /\ variant = "QMIX" /\ pc = "get_state" /\ err = "none"
    /\ \E k \in DOMAIN obs : obs[k].obs # Zeros
    /\ \E k \in DOMAIN obs : obs[k].obs = Zeros


\* C5: every command _apply_rl_actions sends targets a vehicle that is RL
\* controlled at that moment, and the action it carries was read from a
\* slot that held a real vehicle's observation (not the padding template)
\* in the observation the policy answered.
C5_NoCommandFromPadding ==
    (pc = "apply" /\ err = "none") =>
        /\ Len(applied.slots) = Len(applied.ids)
        /\ \A i \in 1..Len(applied.ids) :
            /\ applied.ids[i] \in Range(rl_ids)
            /\ applied.slots[i] \in DOMAIN obs
            /\ obs[applied.slots[i]].obs # Zeros

\* C5 witness: QMIX sent a command while the index of another active
\* vehicle pointed at a padding slot of the observation.
C5_Witness ==
    /\ variant = "QMIX" /\ pc = "apply" /\ err = "none"
    /\ Len(applied.ids) >= 1
    /\ \E v \in Range(rl_ids) : obs[rl_id_to_idx_map[v]].obs = Zeros

\* C6: in I210QMIXMultiEnv._apply_rl_actions a vehicle whose slot action is
\* 0 gets no command and one whose slot action is k >= 1 gets the k-th
\* point of the even grid from -|max_decel| to max_accel: action 1 gives
\* -|max_decel|, action num_actions gives max_accel, larger actions give
\* strictly larger accelerations, all within the bounds, and the id list
\* and the acceleration list have the same length.
OnGrid(x, k) ==
    x.n * (num_actions - 1) =
        x.d * (-Abs(max_decel) * (num_actions - 1)
                 + (k - 1) * (max_accel + Abs(max_decel)))

SlotAction(v) == rl_actions.act[rl_id_to_idx_map[v]]

C6_DiscreteGrid ==
    (variant = "QMIX" /\ pc = "apply" /\ err = "none" /\ applied.called) =>
        /\ Len(applied.ids) = Len(applied.accels)
        /\ Range(applied.ids) = {v \in Range(rl_ids) : SlotAction(v) > 0}
        /\ \A i \in 1..Len(applied.ids) :
            LET k == SlotAction(applied.ids[i])
                x == applied.accels[i]
            IN /\ k \in 1..num_actions
               /\ OnGrid(x, k)
               /\ FracLeq(Frac(-Abs(max_decel), 1), x)
               /\ FracLeq(x, Frac(max_accel, 1))
               /\ k = 1 => x = Frac(-Abs(max_decel), 1)
               /\ k = num_actions => x = Frac(max_accel, 1)
        /\ \A i, j \in 1..Len(applied.ids) :
            SlotAction(applied.ids[i]) < SlotAction(applied.ids[j])
                => FracLt(applied.accels[i], applied.accels[j])

\* C6 witness: one call commands two vehicles with different actions, one
\* of them the largest action, while the grid has an interior point.
C6_Witness ==
    /\ variant = "QMIX" /\ pc = "apply" /\ err = "none" /\ applied.called
    /\ num_actions >= 2
    /\ \E i, j \in 1..Len(applied.ids) :
        /\ SlotAction(applied.ids[i]) < SlotAction(applied.ids[j])
        /\ SlotAction(applied.ids[j]) = num_actions

\* C6 second case: a vehicle whose slot action is 0 is left out of a call
\* that commands another vehicle.
C6_NoopWitness ==
    /\ variant = "QMIX" /\ pc = "apply" /\ err = "none" /\ applied.called
    /\ Len(applied.ids) = 1
    /\ \E v \in Range(rl_ids) : SlotAction(v) = 0

\* C7: compute_reward returns, for every simulator state and every
\* rl_actions (None included), a dictionary whose keys are exactly
\* 0..max_num_agents-1 and whose values are all the same scalar.
C7_BroadcastReward ==
    pc = "compute_reward" =>
        /\ DOMAIN rew.ret = Slots
        /\ \A i, j \in DOMAIN rew.ret : rew.ret[i] = rew.ret[j]

\* C7 witness: compute_reward(None) with one moving RL vehicle, so that
\* one slot is active and the other is padding.
C7_Witness ==
    /\ pc = "compute_reward"
    /\ rew.isNone
    /\ Len(rl_ids) = 1
    /\ \E v \in Range(rl_ids) : rew.speed[v] > 0

\* C8: the broadcast scalar is the mean speed of the RL-controlled
\* vehicles divided by 20*horizon, 0 when there is none; the speeds and the
\* number of the other vehicles do not enter.
C8_MeanRLSpeed ==
    pc = "compute_reward" =>
        \A idx \in DOMAIN rew.ret :
            IF rl_ids = <<>> THEN rew.ret[idx].n = 0
            ELSE rew.ret[idx].n * (Len(rl_ids) * 20 * horizon) =
                    rew.ret[idx].d * Sum(rew.speed, Range(rl_ids))

\* C9: reset() completes without a key-lookup failure for every set of RL
\* vehicles present, leaves the map with exactly the active ids on the
\* indices 0..k-1 and index_counter = k, and returns a dictionary keyed by
\* 0..max_num_agents-1 with every active vehicle's observation at its
\* mapped slot and the padding template elsewhere.
C9_ResetCompletes ==
    pc = "reset" =>
        /\ err = "none"
        /\ DOMAIN rl_id_to_idx_map = Range(rl_ids)
        /\ {rl_id_to_idx_map[v] : v \in DOMAIN rl_id_to_idx_map}
              = 0..(Len(rl_ids) - 1)
        /\ index_counter = Len(rl_ids)
        /\ DOMAIN obs = Slots
        /\ \A v \in Range(rl_ids) :
              obs[rl_id_to_idx_map[v]].obs = VehObs(v)
        /\ \A k \in DOMAIN obs :
              (\A v \in Range(rl_ids) : rl_id_to_idx_map[v] # k)
                  => obs[k].obs = Zeros

\* C10: between two resets a vehicle keeps its index and no slot is
\* reclaimed: a get_state writes every vehicle that was already placed to
\* the slot it had, leaves every index already in the map unchanged, and
\* gives no vehicle the slot of a vehicle that has just left.
C10_StableSlots ==
    [][(pc' = "get_state" /\ err' = "none" /\ ~trapped) =>
        /\ \A v \in (DOMAIN slot_of) \cap (DOMAIN slot_of') :
              slot_of'[v] = slot_of[v]
        /\ \A v \in (DOMAIN rl_id_to_idx_map) \cap (DOMAIN rl_id_to_idx_map') :
              rl_id_to_idx_map'[v] = rl_id_to_idx_map[v]
        /\ \A w \in (DOMAIN slot_of) \ (DOMAIN slot_of') :
              \A v \in DOMAIN slot_of' : slot_of'[v] # slot_of[w]]_vars

\* a call of get_accel has returned
Called == out.calls > 0

\* C11: BCMController.get_accel on a vehicle without a leader (None or the
\* empty id) returns exactly max_accel, whatever the other values are, makes
\* no follower or headway query and leaves the controller as it was.
C11_BCMNoLeader ==
    [][(ctl.class = "BCM" /\ Falsy(env.lead_id)
            /\ out'.calls = out.calls + 1)
        => /\ out'.ret.accel = ctl.max_accel
           /\ \A i \in 1..Len(out'.ret.queries) :
                out'.ret.queries[i].fn \notin {"get_follower", "get_headway"}
           /\ ctl' = ctl]_vars

\* a bilateral controller without a leader but with a follower has answered
C11_Witness ==
    /\ Called
    /\ ctl.class = "BCM"
    /\ env.lead_id = ""
    /\ env.trail_id = "follow"
    /\ out.ret.accel = ctl.max_accel
    /\ out.ret.accel # F(8)

\* the intelligent driver model's desired gap behind a leader of speed vl
IDMGap(c, v, vl) ==
    FAdd(c.s0, FMax(F(0),
        FAdd(FMul(v, c.T),
             FDiv(FMul(v, FSub(v, vl)), FMul(F(2), FSqrt(FMul(c.a, c.b)))))))

\* a * (1 - (v/v0)^delta - (s/h)^2)
IDMLaw(c, v, s, h) ==
    FMul(c.a, FSub(FSub(F(1), FPow(FDiv(v, c.v0), c.delta)),
                   FPow(FDiv(s, h), 2)))

\* the headways the simulator reports to the IDM controller
IDMHeadways == {e.headway["ego"] : e \in IDMEnvs}

\* C12: IDMController.get_accel without a leader (None or '') uses s* = 0
\* and returns a*(1 - (v/v0)^delta), whatever headway the simulator reports;
\* with a leader it uses s* = s0 + max(0, v*T + v*(v - v_lead)/(2*sqrt(a*b)))
\* and returns a*(1 - (v/v0)^delta - (s*/h)^2), h being the headway (1e-3
\* in place of a headway of smaller magnitude).
C12_IDMLaw ==
    (Called /\ ctl.class = "IDM") =>
        LET v == env.speed["ego"]
            h == out.ret.h
        IN IF env.lead_id \in {"None", ""}
           THEN /\ out.ret.s_star = F(0)
                /\ out.ret.accel =
                      FMul(ctl.a, FSub(F(1), FPow(FDiv(v, ctl.v0), ctl.delta)))
                /\ \A x \in IDMHeadways :
                      IDM_get_accel(ctl, [env EXCEPT !.headway["ego"] = x]).accel
                          = out.ret.accel
           ELSE /\ out.ret.s_star = IDMGap(ctl, v, env.speed[env.lead_id])
                /\ out.ret.accel = IDMLaw(ctl, v, out.ret.s_star, h)
                /\ ~FracLt(FAbs(env.headway["ego"]), Frac(1, 1000))
                      => h = env.headway["ego"]

\* a moving vehicle without a leader, the simulator reporting a tiny headway
C12_Witness ==
    /\ Called
    /\ ctl.class = "IDM"
    /\ env.lead_id = ""
    /\ env.speed["ego"] = F(2)
    /\ env.headway["ego"] = Frac(1, 2000)
    /\ out.ret.accel = Frac(15, 16)

\* a vehicle closing in on a slower leader: s* = 2 + 2 + 2*2/(2*2) = 5
C12_LeaderWitness ==
    /\ Called
    /\ ctl.class = "IDM"
    /\ ctl.b = F(4)
    /\ env.lead_id = "lead"
    /\ env.speed["ego"] = F(2)
    /\ env.speed["lead"] = F(0)
    /\ env.headway["ego"] = F(5)
    /\ out.ret.s_star = F(5)
    /\ out.ret.accel = Frac(-1, 16)

\* the desired control of the linear adaptive cruise controller
\* u = k_1*(headway - L - h*v) + k_2*(v_lead - v)
LACu(c, e) ==
    FAdd(FMul(c.k_1, FSub(FSub(get_headway(e, c.veh_id), e.length),
                          FMul(c.h, get_speed(e, c.veh_id)))),
         FMul(c.k_2, FSub(get_speed(e, e.lead_id), get_speed(e, c.veh_id))))

\* |a - u|
LACError(c, e) == FAbs(FSub(c.a, LACu(c, e)))

\* |1 - sim_step/tau|
LACFactor(c, e) == FAbs(FSub(F(1), FDiv(e.sim_step, c.tau)))

\* a call of LACController.get_accel is this step
LACCall == ctl.class = "LAC" /\ out'.calls = out.calls + 1

\* the update of the stored acceleration, its return, the error's factor
\* and the fixed point
LACStep ==
    /\ ctl'.a = FAdd(ctl.a, FDiv(FMul(env.sim_step,
                                      FSub(LACu(ctl, env), ctl.a)), ctl.tau))
    /\ out'.ret.accel = ctl'.a
    /\ LACError(ctl', env') = FMul(LACFactor(ctl, env), LACError(ctl, env))
    /\ ctl.a = LACu(ctl, env) => ctl'.a = ctl.a

\* C13 as stated: with constant inputs every call of LACController.get_accel
\* sets a to a + sim_step*(u - a)/tau and returns it, the error |a - u|
\* shrinks by the factor |1 - sim_step/tau| on every call, and a = u is a
\* fixed point (here for a vehicle that has a leader).
C13_ErrorShrinks ==
    [][(LACCall /\ env.lead_id = "lead") =>
        /\ LACStep
        /\ ctl.a # LACu(ctl, env) =>
              FracLt(LACError(ctl', env'), LACError(ctl, env))]_vars

\* C13, amended: with constant inputs every call sets a to
\* a + sim_step*(u - a)/tau and returns it, the error |a - u| is multiplied
\* by |1 - sim_step/tau| on every call, it shrinks on every call when
\* 0 < sim_step < 2*tau, and a = u is a fixed point.
C13_LagStep ==
    [][LACCall =>
        /\ LACStep
        /\ (/\ ctl.a # LACu(ctl, env)
            /\ FracLt(F(0), env.sim_step)
            /\ FracLt(env.sim_step, FMul(F(2), ctl.tau)))
              => FracLt(LACError(ctl', env'), LACError(ctl, env))]_vars

\* two calls with sim_step = tau/2 have quartered a non-zero error
C13_Witness ==
    /\ out.calls = 2
    /\ ctl.class = "LAC"
    /\ env.lead_id = "lead"
    /\ env.sim_step = Frac(1, 20)
    /\ ctl.a # LACu(ctl, env)
    /\ \E a0 \in {F(0), F(2)} :
          FMul(F(4), LACError(ctl, env)) = FAbs(FSub(a0, LACu(ctl, env)))

\* values the kernel could report for a vehicle that does not exist
ErrorValues == {F(SpeedError), F(0)}

\* the vehicle has no leader, or the bilateral controller's has no follower
MissingNeighbour ==
    \/ Falsy(env.lead_id)
    \/ ctl.class = "BCM" /\ Falsy(env.trail_id)

\* C14: for each of BCMController, LACController, OVMController and
\* IDMController, get_accel on a vehicle without a leader (for the bilateral
\* model also: with a leader but without a follower) returns an acceleration
\* that is not computed from the values the simulator reports for the
\* missing vehicle: it is the same whatever those values are.
C14_NoSentinelUse ==
    [][(ctl.class # "none" /\ MissingNeighbour
            /\ out'.calls = out.calls + 1)
        => \A x \in ErrorValues :
              get_accel(ctl, [env EXCEPT !.error = x]).accel
                  = out'.ret.accel]_vars

\* the epsilon of IDMController.get_accel
Eps == Frac(1, 1000)

\* C15 as stated: the headway IDMController.get_accel divides by is floored
\* to 1e-3: for every headway the simulator reports, zero, tiny and negative
\* ones included, the divisor is at least 1e-3.
C15_DivisorFloored ==
    (Called /\ ctl.class = "IDM") => FracLeq(Eps, out.ret.h)

\* C15, amended: the headway IDMController.get_accel divides by is 1e-3 when
\* the reported headway is smaller than 1e-3 in magnitude and the reported
\* headway otherwise, negative ones included; its magnitude is at least 1e-3,
\* so the division is never by zero.
C15_DivisorNonZero ==
    (Called /\ ctl.class = "IDM") =>
        LET h0 == env.headway["ego"]
            h == out.ret.h
        IN /\ h = (IF FracLt(FAbs(h0), Eps) THEN Eps ELSE h0)
           /\ FracLeq(Eps, FAbs(h))
           /\ h.n # 0
           /\ out.ret.accel =
                 FMul(ctl.a, FSub(FSub(F(1), FPow(FDiv(env.speed["ego"],
                                                      ctl.v0), ctl.delta)),
                                  FDiv(FMul(out.ret.s_star, out.ret.s_star),
                                       FMul(h, h))))

\* a standing vehicle right behind its leader, reported headway 0:
\* 1 - (2/0.001)^2
C15_Witness ==
    /\ Called
    /\ ctl.class = "IDM"
    /\ env.lead_id = "lead"
    /\ env.speed["ego"] = F(0)
    /\ env.headway["ego"] = F(0)
    /\ out.ret.h = Eps
    /\ out.ret.accel = F(-3999999)

\* a negative headway of magnitude above 1e-3 is divided by as it is
C15_NegativeWitness ==
    /\ Called
    /\ ctl.class = "IDM"
    /\ env.lead_id = "lead"
    /\ env.headway["ego"] = F(-5)
    /\ out.ret.h = F(-5)

\* v_max/2 * (1 - cos(pi*(h - h_st)/(h_go - h_st)))
OVMRamp(c, h) ==
    FMul(FDiv(c.v_max, F(2)),
         FSub(F(1), CosPi(FDiv(FSub(h, c.h_st), FSub(c.h_go, c.h_st)))))

\* the desired speed V(h) of the optimal velocity model
OVMDesired(c, h) ==
    IF FracLeq(h, c.h_st) THEN F(0)
    ELSE IF FracLeq(c.h_go, h) THEN c.v_max
    ELSE OVMRamp(c, h)

\* C16: for h_st < h_go, OVMController's desired speed V(h) is 0 for
\* h <= h_st, v_max for h >= h_go and v_max/2*(1 - cos(pi*(h - h_st)/(h_go -
\* h_st))) in between; V(h_st) = 0 and V(h_go) = v_max are also the values of
\* the ramp at the breakpoints; 0 <= V(h) <= v_max; with a leader get_accel
\* returns alpha*(V(h) - v) + beta*(v_lead - v).
C16_OptimalVelocity ==
    (Called /\ ctl.class = "OVM" /\ FracLt(ctl.h_st, ctl.h_go)
            /\ ~Falsy(env.lead_id)) =>
        LET h == env.headway["ego"]
            v == env.speed["ego"]
            V == out.ret.v_h
        IN /\ V = OVMDesired(ctl, h)
           /\ OVM_v_h(ctl, ctl.h_st) = F(0)
           /\ OVM_v_h(ctl, ctl.h_go) = ctl.v_max
           /\ OVMRamp(ctl, ctl.h_st) = OVM_v_h(ctl, ctl.h_st)
           /\ OVMRamp(ctl, ctl.h_go) = OVM_v_h(ctl, ctl.h_go)
           /\ FracLeq(F(0), V)
           /\ FracLeq(V, ctl.v_max)
           /\ out.ret.accel =
                 FAdd(FMul(ctl.alpha, FSub(V, v)),
                      FMul(ctl.beta, FSub(env.speed[env.lead_id], v)))

\* a headway two thirds up the ramp: V = 15 * (1 + 1/2)
C16_Witness ==
    /\ Called
    /\ ctl.class = "OVM"
    /\ ctl.h_go = F(8)
    /\ ctl.beta = F(2)
    /\ env.lead_id = "lead"
    /\ env.headway["ego"] = F(6)
    /\ env.speed["ego"] = F(10)
    /\ env.speed["lead"] = F(0)
    /\ out.ret.v_h = Frac(45, 2)
    /\ out.ret.accel = Frac(-15, 2)

\* I210MultiEnv.compute_reward has returned in global-reward mode for
\* actions that are not None
GlobalMode ==
    pc = "compute_reward" /\ ~rew.isNone /\ ~env.local_reward

\* C17 as stated: in global-reward mode I210MultiEnv.compute_reward returns
\* a dictionary keyed by exactly the RL vehicle ids in which every reward is
\* 0 whenever fail is true, the vehicle's raw speed whenever the environment
\* is in evaluation mode, and otherwise max(eta1*average_velocity +
\* eta2*headway_penalty, 0), which is never negative; for rl_actions None it
\* returns the empty dictionary.
C17_RewardOverrides ==
    /\ (pc = "compute_reward" /\ rew.isNone) => rew.ret = EmptyDict
    /\ GlobalMode =>
        /\ DOMAIN rew.ret = Range(rl_ids)
        /\ \A v \in Range(rl_ids) :
            /\ rew.fail => rew.ret[v] = F(0)
            /\ env.evaluate => rew.ret[v] = env.speed[v]
            /\ (~rew.fail /\ ~env.evaluate) =>
                /\ rew.ret[v] = FMax(FAdd(FMul(Eta1, env.avg),
                                          FMul(Eta2, HeadwayPenalty(env, v))),
                                     F(0))
                /\ FracLeq(F(0), rew.ret[v])

\* C17, amended: in global-reward mode I210MultiEnv.compute_reward returns a
\* dictionary keyed by exactly the RL vehicle ids in which every reward is
\* the vehicle's raw speed whenever the environment is in evaluation mode
\* (also after a collision), 0 when fail is true outside evaluation mode, and
\* otherwise max(eta1*average_velocity + eta2*headway_penalty, 0), which is
\* never negative; for rl_actions None it returns the empty dictionary.
C17_EvaluateFirst ==
    /\ (pc = "compute_reward" /\ rew.isNone) => rew.ret = EmptyDict
    /\ GlobalMode =>
        /\ DOMAIN rew.ret = Range(rl_ids)
        /\ \A v \in Range(rl_ids) :
            /\ env.evaluate => rew.ret[v] = env.speed[v]
            /\ (rew.fail /\ ~env.evaluate) => rew.ret[v] = F(0)
            /\ (~rew.fail /\ ~env.evaluate) =>
                /\ rew.ret[v] = FMax(FAdd(FMul(Eta1, env.avg),
                                          FMul(Eta2, HeadwayPenalty(env, v))),
                                     F(0))
                /\ FracLeq(F(0), rew.ret[v])

\* evaluation mode after a collision: two moving RL vehicles are rewarded
\* their speed
C17_Witness ==
    /\ GlobalMode
    /\ env.evaluate
    /\ rew.fail
    /\ Len(rl_ids) = 2
    /\ \A v \in Range(rl_ids) : rew.ret[v] = F(2)

\* a negative average velocity is floored at 0 for a vehicle whose headway
\* penalty is negative
C17_FloorWitness ==
    /\ GlobalMode
    /\ ~env.evaluate
    /\ ~rew.fail
    /\ env.avg = Frac(-1, 2)
    /\ \E v \in Range(rl_ids) :
        /\ HeadwayPenalty(env, v) = Frac(-1, 2)
        /\ rew.ret[v] = F(0)

\* C18: in both adapters, at every tick of an episode, the slot from which
\* _apply_rl_actions reads a vehicle's action is the slot at which the
\* get_state (or reset) just before placed that vehicle's observation, and
\* every acceleration applied to a vehicle was read from that slot.
C18_ActionFromOwnSlot ==
    (pc = "apply" /\ err = "none" /\ ~trapped /\ Truthy(rl_actions)) =>
        /\ \A v \in Range(rl_ids) \cap DOMAIN rl_id_to_idx_map :
              /\ v \in DOMAIN slot_of
              /\ rl_id_to_idx_map[v] = slot_of[v]
        /\ \A i \in 1..Len(applied.ids) :
              applied.slots[i] = slot_of[applied.ids[i]]
====
